---- MODULE Spec2Model ----
(***************************************************************************)
(* Model of main-lab/mpi_vector_sum.c (block-distributed vector addition   *)
(* with MPI_Scatter / MPI_Gather / MPI_Allreduce) and of the serial        *)
(* Vector_sum of main-lab/modified_vector_add.c.                            *)
(*                                                                         *)
(* Every MPI process (rank) runs main; a rank's position in main is pc[k]. *)
(* A collective is modelled by what the MPI standard guarantees: calls on  *)
(* one communicator match in call order; MPI_Allreduce returns only after  *)
(* every rank has contributed; the root of MPI_Scatter may return as soon  *)
(* as its blocks are on their way, a non-root returns once its block has   *)
(* arrived; a non-root of MPI_Gather may return once its block is on its   *)
(* way, the root returns once it has every block.                          *)
(*                                                                         *)
(* Doubles are modelled by the integers of Vals with integer addition.     *)
(* The vector order that Read_n hard-codes is the variable order, chosen   *)
(* in Init from 1..MaxN, and the number of ranks p from 1..MaxP.           *)
(*                                                                         *)
(* SerialSpec is the serial program main-lab/modified_vector_add.c, with   *)
(* VECTOR_SIZE chosen from 1..SerialMaxN; its doubles are multiples of 0.1 *)
(* and are modelled by their number of tenths.  SumSpec applies the two    *)
(* summation functions to every pair of vectors over Vals.                 *)
(***************************************************************************)
EXTENDS Integers, Sequences, FiniteSets, TLC

MaxN == 4
MaxP == 2
SerialMaxN == 11
MaxTime == 1

\* Print_part_of_vector: i < 10
PrintLimit == 10
\* Generate_random_vector: rand() % 1000
RandRange == 1000

Vals == {0, 1}

\* content of a malloc'ed double that was never written
Uninit == -1
\* MPI_Allreduce slot of a rank that has not called yet
NoFlag == -1
\* exit status of a process that is still running
Running == 99

VARIABLES
  p,          \* comm_sz
  order,      \* the vector order Read_n assigns to n
  pc,         \* pc[k]: where rank k stands in main
  n,          \* n[k]: main's n
  local_n,    \* local_n[k]: main's local_n
  ptr,        \* ptr[k].x/.y/.z: state of main's local_x, local_y, local_z pointers
  local_x, local_y, local_z,   \* contents of the block buffers
  a,          \* a["x"], a["y"]: rank 0's full-length vector in each Read_vector call
  aPtr,       \* state of the pointer a in each Read_vector call
  b,          \* rank 0's full-length buffer in Print_vector
  bPtr,       \* state of the pointer b
  allred,     \* allred[r][k]: rank k's contribution to the r-th MPI_Allreduce
  okSeen,     \* okSeen[r][k]: the ok rank k got from the r-th MPI_Allreduce
  scatterQ,   \* scatterQ[k]: blocks on their way from rank 0 to rank k
  gatherQ,    \* gatherQ[k]: blocks on their way from rank k to rank 0
  scatters,   \* scatters[k]: MPI_Scatter calls rank k has made
  gathers,    \* gathers[k]: MPI_Gather calls rank k has made
  diag,       \* diag[k]: diagnostic lines rank k wrote to stderr
  out,        \* out[k]: vectors rank k printed to stdout
  exitCode,   \* exitCode[k]: exit status of rank k
  nullWrite,  \* rank 0 stored through a NULL pointer a
  spc,        \* serial program: where main stands
  sn,         \* serial program: n; SumSpec: the length passed to the function
  sptr,       \* serial program: state of the pointers x, y, z
  sx, sy, sz, \* serial program: contents of x, y, z; SumSpec: the arguments
  clock,      \* serial program: what time(NULL) returned last
  serr,       \* serial program: lines written to stderr
  sout,       \* serial program: value lists written to stdout
  sexit       \* serial program: exit status

mpiVars == <<p, order, pc, n, local_n, ptr, local_x, local_y, local_z, a, aPtr,
             b, bPtr, allred, okSeen, scatterQ, gatherQ, scatters, gathers,
             diag, out, exitCode, nullWrite>>

serialVars == <<spc, sn, sptr, sx, sy, sz, clock, serr, sout, sexit>>

vars == <<mpiVars, serialVars>>

Ranks == 0 .. (p - 1)

PtrStates == {"unset", "NULL", "live", "freed"}

\* ---------------------------------------------------------------- helpers

\* malloc returns NULL or a fresh buffer
MallocResults == {"NULL", "live"}

\* a fresh buffer of len doubles, none written yet
Fresh(len) == [i \in 1 .. len |-> Uninit]

\* the vectors rand() can produce in the generation loop of Read_vector
RandomVectors(len) == [1 .. len -> Vals]

\* blocks handed out in reverse rank order
Block_reversed(vec, k, count) ==
  [i \in 1 .. count |-> vec[(p - 1 - k) * count + i]]

\* MPI_Scatter / MPI_Gather block of rank k: sendbuf[k*count .. (k+1)*count)
Block(vec, k, count) == [i \in 1 .. count |-> vec[k * count + i]]

\* the loop runs one element too far
Vector_sum_overrun(x, y, z, len) ==
  [i \in 1 .. Len(z) |-> IF i <= len + 1 THEN x[i] + y[i] ELSE z[i]]

\* x is added to itself
Vector_sum_typo(x, y, z, len) ==
  [i \in 1 .. Len(z) |-> IF i <= len THEN x[i] + x[i] ELSE z[i]]

\* modified_vector_add.c: z[i] = x[i] + y[i] for i in [0, len)
Vector_sum(x, y, z, len) ==
  [i \in 1 .. Len(z) |-> IF i <= len THEN x[i] + y[i] ELSE z[i]]

\* the loop stops one element early
Parallel_vector_sum_short(lx, ly, lz, len) ==
  [i \in 1 .. Len(lz) |-> IF i < len THEN lx[i] + ly[i] ELSE lz[i]]

\* mpi_vector_sum.c: local_z[local_i] = local_x[local_i] + local_y[local_i]
\* for local_i in [0, len)
Parallel_vector_sum(lx, ly, lz, len) ==
  [i \in 1 .. Len(lz) |-> IF i <= len THEN lx[i] + ly[i] ELSE lz[i]]

\* Allocate_vectors: local_ok after the three mallocs
Local_ok(px, py, pz) ==
  IF px = "NULL" \/ py = "NULL" \/ pz = "NULL" THEN 0 ELSE 1

\* the result of malloc is not looked at
Local_ok_b_unchecked(pb) == 1

\* Print_vector on rank 0: local_ok after the malloc of b
Local_ok_b(pb) == IF pb = "NULL" THEN 0 ELSE 1

\* MPI_MAX instead of MPI_MIN
AllreduceMax(flags) ==
  CHOOSE m \in {flags[k] : k \in DOMAIN flags} :
    \A k \in DOMAIN flags : m >= flags[k]

\* MPI_MIN over the contributions of all ranks
AllreduceMin(flags) ==
  CHOOSE m \in {flags[k] : k \in DOMAIN flags} :
    \A k \in DOMAIN flags : m <= flags[k]

\* a reduction that returns once anybody has contributed
AnyContributed(r) == \E j \in Ranks : allred[r][j] # NoFlag

\* MPI_Allreduce can return: every rank has made its r-th call
AllContributed(r) == \A j \in Ranks : allred[r][j] # NoFlag

\* blocks stored in reverse rank order
GatherInto_reversed(buf, blocks, count) ==
  [i \in 1 .. Len(buf) |->
     IF i <= p * count
       THEN blocks[p - 1 - ((i - 1) \div count)][((i - 1) % count) + 1]
       ELSE buf[i]]

\* recvbuf of the root after MPI_Gather: block k at [k*count, (k+1)*count)
GatherInto(buf, blocks, count) ==
  [i \in 1 .. Len(buf) |->
     IF i <= p * count
       THEN blocks[(i - 1) \div count][((i - 1) % count) + 1]
       ELSE buf[i]]

\* every rank prints
PrintsDiagnostic_all(k) == TRUE

\* the rank that prints the diagnostic in Check_for_error
PrintsDiagnostic(k) == k = 0

\* ---------------------------------------------------------------- Init

\* the serial program is not running
SerialIdle ==
  /\ spc = "off"
  /\ sn = 0
  /\ sptr = [x |-> "unset", y |-> "unset", z |-> "unset"]
  /\ sx = <<>>
  /\ sy = <<>>
  /\ sz = <<>>
  /\ clock = 0
  /\ serr = 0
  /\ sout = <<>>
  /\ sexit = Running

MpiInit ==
  /\ p \in 1 .. MaxP
  /\ order \in 1 .. MaxN
  /\ pc = [k \in Ranks |-> "Read_n"]
  /\ n = [k \in Ranks |-> 0]
  /\ local_n = [k \in Ranks |-> 0]
  /\ ptr = [k \in Ranks |-> [x |-> "unset", y |-> "unset", z |-> "unset"]]
  /\ local_x = [k \in Ranks |-> <<>>]
  /\ local_y = [k \in Ranks |-> <<>>]
  /\ local_z = [k \in Ranks |-> <<>>]
  /\ a = [v \in {"x", "y"} |-> <<>>]
  /\ aPtr = [v \in {"x", "y"} |-> "unset"]
  /\ b = <<>>
  /\ bPtr = "unset"
  /\ allred = [r \in 1 .. 2 |-> [k \in Ranks |-> NoFlag]]
  /\ okSeen = [r \in 1 .. 2 |-> [k \in Ranks |-> NoFlag]]
  /\ scatterQ = [k \in Ranks |-> <<>>]
  /\ gatherQ = [k \in Ranks |-> <<>>]
  /\ scatters = [k \in Ranks |-> 0]
  /\ gathers = [k \in Ranks |-> 0]
  /\ diag = [k \in Ranks |-> 0]
  /\ out = [k \in Ranks |-> <<>>]
  /\ exitCode = [k \in Ranks |-> Running]
  /\ nullWrite = FALSE

Init == MpiInit /\ SerialIdle

\* ---------------------------------------------------------------- actions

\* main, line 54: Read_n
Read_n(k) ==
  /\ pc[k] = "Read_n"
  /\ n' = [n EXCEPT ![k] = order]
  /\ local_n' = [local_n EXCEPT ![k] = order \div p]
  /\ pc' = [pc EXCEPT ![k] = "Allocate_vectors"]
  /\ UNCHANGED serialVars
  /\ UNCHANGED <<p, order, ptr, local_x, local_y, local_z, a, aPtr, b, bPtr,
                 allred, okSeen, scatterQ, gatherQ, scatters, gathers, diag,
                 out, exitCode, nullWrite>>

\* Allocate_vectors up to the MPI_Allreduce of Check_for_error
Allocate_vectors(k) ==
  /\ pc[k] = "Allocate_vectors"
  /\ \E px \in MallocResults, py \in MallocResults, pz \in MallocResults :
       LET local_ok == Local_ok(px, py, pz)
       IN /\ ptr' = [ptr EXCEPT ![k] = [x |-> px, y |-> py, z |-> pz]]
          /\ local_x' = [local_x EXCEPT
                           ![k] = IF px = "live" THEN Fresh(local_n[k]) ELSE <<>>]
          /\ local_y' = [local_y EXCEPT
                           ![k] = IF py = "live" THEN Fresh(local_n[k]) ELSE <<>>]
          /\ local_z' = [local_z EXCEPT
                           ![k] = IF pz = "live" THEN Fresh(local_n[k]) ELSE <<>>]
          /\ allred' = [allred EXCEPT ![1][k] = local_ok]
  /\ pc' = [pc EXCEPT ![k] = "Check_alloc"]
  /\ UNCHANGED serialVars
  /\ UNCHANGED <<p, order, n, local_n, a, aPtr, b, bPtr, okSeen, scatterQ,
                 gatherQ, scatters, gathers, diag, out, exitCode, nullWrite>>

\* Check_for_error from the return of MPI_Allreduce on
Check_for_error(k) ==
  /\ pc[k] \in {"Check_alloc", "Check_print"}
  /\ LET r == IF pc[k] = "Check_alloc" THEN 1 ELSE 2
     IN /\ AllContributed(r)
        /\ LET ok == AllreduceMin(allred[r])
           IN /\ okSeen' = [okSeen EXCEPT ![r][k] = ok]
              /\ IF ok = 0
                   THEN /\ diag' = [diag EXCEPT
                                      ![k] = IF PrintsDiagnostic(k) THEN @ + 1 ELSE @]
                        /\ pc' = [pc EXCEPT ![k] = "exited"]
                        /\ exitCode' = [exitCode EXCEPT ![k] = -1]
                   ELSE /\ pc' = [pc EXCEPT
                                    ![k] = IF r = 1 THEN "Read_x" ELSE "Gather"]
                        /\ UNCHANGED <<diag, exitCode>>
  /\ UNCHANGED serialVars
  /\ UNCHANGED <<p, order, n, local_n, ptr, local_x, local_y, local_z, a, aPtr,
                 b, bPtr, allred, scatterQ, gatherQ, scatters, gathers, out,
                 nullWrite>>

\* Read_vector on rank 0 when malloc returns a buffer: generate, scatter, free
Read_vector_root(k, which) ==
  /\ k = 0
  /\ \E vec \in RandomVectors(n[k]) :
       /\ a' = [a EXCEPT ![which] = vec]
       /\ aPtr' = [aPtr EXCEPT ![which] = "freed"]
       /\ scatterQ' = [j \in Ranks |->
                         IF j = k THEN scatterQ[j]
                         ELSE Append(scatterQ[j], Block(vec, j, local_n[k]))]
       /\ IF which = "x"
            THEN /\ local_x' = [local_x EXCEPT ![k] = Block(vec, k, local_n[k])]
                 /\ UNCHANGED local_y
            ELSE /\ local_y' = [local_y EXCEPT ![k] = Block(vec, k, local_n[k])]
                 /\ UNCHANGED local_x
  /\ scatters' = [scatters EXCEPT ![k] = @ + 1]
  /\ pc' = [pc EXCEPT ![k] = IF which = "x" THEN "Read_y" ELSE "Parallel_vector_sum"]
  /\ UNCHANGED nullWrite

\* Read_vector on rank 0 when malloc returns NULL: a[i] = ... stores through
\* NULL, which is undefined: the process dies on the store
Read_vector_null_crash(k, which) ==
  /\ k = 0
  /\ aPtr' = [aPtr EXCEPT ![which] = "NULL"]
  /\ nullWrite' = TRUE
  /\ pc' = [pc EXCEPT ![k] = "crashed"]
  /\ UNCHANGED <<a, scatterQ, local_x, local_y, scatters>>

\* ... or the stores land somewhere and MPI_Scatter sends whatever is read back
Read_vector_null_garbage(k, which) ==
  /\ k = 0
  /\ aPtr' = [aPtr EXCEPT ![which] = "NULL"]
  /\ nullWrite' = TRUE
  /\ \E vec \in RandomVectors(n[k]) :
       /\ scatterQ' = [j \in Ranks |->
                         IF j = k THEN scatterQ[j]
                         ELSE Append(scatterQ[j], Block(vec, j, local_n[k]))]
       /\ IF which = "x"
            THEN /\ local_x' = [local_x EXCEPT ![k] = Block(vec, k, local_n[k])]
                 /\ UNCHANGED local_y
            ELSE /\ local_y' = [local_y EXCEPT ![k] = Block(vec, k, local_n[k])]
                 /\ UNCHANGED local_x
  /\ scatters' = [scatters EXCEPT ![k] = @ + 1]
  /\ pc' = [pc EXCEPT ![k] = IF which = "x" THEN "Read_y" ELSE "Parallel_vector_sum"]
  /\ UNCHANGED a

\* Read_vector on a rank other than 0: MPI_Scatter delivers the rank's block
Read_vector_recv(k, which) ==
  /\ k # 0
  /\ scatterQ[k] # <<>>
  /\ scatterQ' = [scatterQ EXCEPT ![k] = Tail(@)]
  /\ IF which = "x"
       THEN /\ local_x' = [local_x EXCEPT ![k] = Head(scatterQ[k])]
            /\ UNCHANGED local_y
       ELSE /\ local_y' = [local_y EXCEPT ![k] = Head(scatterQ[k])]
            /\ UNCHANGED local_x
  /\ scatters' = [scatters EXCEPT ![k] = @ + 1]
  /\ pc' = [pc EXCEPT ![k] = IF which = "x" THEN "Read_y" ELSE "Parallel_vector_sum"]
  /\ UNCHANGED <<a, aPtr, nullWrite>>

Read_vector(k) ==
  /\ pc[k] \in {"Read_x", "Read_y"}
  /\ LET which == IF pc[k] = "Read_x" THEN "x" ELSE "y"
     IN \/ Read_vector_root(k, which)
        \/ Read_vector_null_crash(k, which)
        \/ Read_vector_null_garbage(k, which)
        \/ Read_vector_recv(k, which)
  /\ UNCHANGED serialVars
  /\ UNCHANGED <<p, order, n, local_n, ptr, local_z, b, bPtr, allred, okSeen,
                 gatherQ, gathers, diag, out, exitCode>>

\* the sum is accumulated into local_x as well
Compute_inplace(k) ==
  /\ pc[k] = "Parallel_vector_sum"
  /\ local_z' = [local_z EXCEPT
                   ![k] = Parallel_vector_sum(local_x[k], local_y[k],
                                              local_z[k], local_n[k])]
  /\ local_x' = [local_x EXCEPT ![k] = local_z'[k]]
  /\ pc' = [pc EXCEPT ![k] = "Print_vector"]
  /\ UNCHANGED serialVars
  /\ UNCHANGED <<p, order, n, local_n, ptr, local_y, a, aPtr, b, bPtr,
                 allred, okSeen, scatterQ, gatherQ, scatters, gathers, diag,
                 out, exitCode, nullWrite>>

\* main, line 60
Compute(k) ==
  /\ pc[k] = "Parallel_vector_sum"
  /\ local_z' = [local_z EXCEPT
                   ![k] = Parallel_vector_sum(local_x[k], local_y[k],
                                              local_z[k], local_n[k])]
  /\ pc' = [pc EXCEPT ![k] = "Print_vector"]
  /\ UNCHANGED serialVars
  /\ UNCHANGED <<p, order, n, local_n, ptr, local_x, local_y, a, aPtr, b, bPtr,
                 allred, okSeen, scatterQ, gatherQ, scatters, gathers, diag,
                 out, exitCode, nullWrite>>

\* ranks other than 0 skip Check_for_error and go straight to MPI_Gather
Print_vector_skip(k) ==
  /\ pc[k] = "Print_vector"
  /\ IF k = 0
       THEN /\ \E pb \in MallocResults :
                 /\ bPtr' = pb
                 /\ b' = IF pb = "live" THEN Fresh(n[k]) ELSE <<>>
                 /\ allred' = [allred EXCEPT ![2][k] = Local_ok_b(pb)]
            /\ pc' = [pc EXCEPT ![k] = "Check_print"]
       ELSE /\ pc' = [pc EXCEPT ![k] = "Gather"]
            /\ UNCHANGED <<b, bPtr, allred>>
  /\ UNCHANGED serialVars
  /\ UNCHANGED <<p, order, n, local_n, ptr, local_x, local_y, local_z, a, aPtr,
                 okSeen, scatterQ, gatherQ, scatters, gathers, diag, out,
                 exitCode, nullWrite>>

\* Print_vector up to the MPI_Allreduce of Check_for_error
Print_vector(k) ==
  /\ pc[k] = "Print_vector"
  /\ IF k = 0
       THEN \E pb \in MallocResults :
              /\ bPtr' = pb
              /\ b' = IF pb = "live" THEN Fresh(n[k]) ELSE <<>>
              /\ allred' = [allred EXCEPT ![2][k] = Local_ok_b(pb)]
       ELSE /\ allred' = [allred EXCEPT ![2][k] = 1]
            /\ UNCHANGED <<b, bPtr>>
  /\ pc' = [pc EXCEPT ![k] = "Check_print"]
  /\ UNCHANGED serialVars
  /\ UNCHANGED <<p, order, n, local_n, ptr, local_x, local_y, local_z, a, aPtr,
                 okSeen, scatterQ, gatherQ, scatters, gathers, diag, out,
                 exitCode, nullWrite>>

\* what printf shows of buf: a double never written reads as anything
Printed(buf) ==
  LET unwritten == {i \in 1 .. Len(buf) : buf[i] = Uninit}
  IN {[i \in 1 .. Len(buf) |-> IF i \in unwritten THEN read[i] ELSE buf[i]] :
        read \in [unwritten -> Vals]}

\* every rank runs the printing branch
PrintsVector_all(k) == TRUE

\* the rank that takes the printing branch of Print_vector (my_rank == 0)
PrintsVector(k) == k = 0

\* Print_vector from MPI_Gather on: the rest of Print_vector
Gather(k) ==
  /\ pc[k] = "Gather"
  /\ IF k = 0
       THEN /\ \A j \in Ranks \ {k} : gatherQ[j] # <<>>
            /\ LET blocks == [j \in Ranks |->
                                IF j = k THEN local_z[k] ELSE Head(gatherQ[j])]
                   full == GatherInto(b, blocks, local_n[k])
               IN b' = full
            /\ gatherQ' = [j \in Ranks |->
                             IF j = k THEN gatherQ[j] ELSE Tail(gatherQ[j])]
            /\ bPtr' = IF bPtr = "NULL" THEN "NULL" ELSE "freed"
       ELSE /\ gatherQ' = [gatherQ EXCEPT ![k] = Append(@, local_z[k])]
            /\ UNCHANGED <<b, bPtr>>
  /\ IF PrintsVector(k)
       THEN \E text \in Printed(b') : out' = [out EXCEPT ![k] = Append(@, text)]
       ELSE UNCHANGED out
  /\ gathers' = [gathers EXCEPT ![k] = @ + 1]
  /\ pc' = [pc EXCEPT ![k] = "Free"]
  /\ UNCHANGED serialVars
  /\ UNCHANGED <<p, order, n, local_n, ptr, local_x, local_y, local_z, a, aPtr,
                 allred, okSeen, scatterQ, scatters, diag, exitCode, nullWrite>>

\* free(local_z) is missing
Finish_leak(k) ==
  /\ pc[k] = "Free"
  /\ ptr' = [ptr EXCEPT ![k] = [x |-> "freed", y |-> "freed", z |-> @.z]]
  /\ exitCode' = [exitCode EXCEPT ![k] = 0]
  /\ pc' = [pc EXCEPT ![k] = "done"]
  /\ UNCHANGED serialVars
  /\ UNCHANGED <<p, order, n, local_n, local_x, local_y, local_z, a, aPtr, b,
                 bPtr, allred, okSeen, scatterQ, gatherQ, scatters, gathers,
                 diag, out, nullWrite>>

\* main, lines 63-68: free the blocks, MPI_Finalize, return 0
Finish(k) ==
  /\ pc[k] = "Free"
  /\ ptr' = [ptr EXCEPT ![k] = [x |-> "freed", y |-> "freed", z |-> "freed"]]
  /\ exitCode' = [exitCode EXCEPT ![k] = 0]
  /\ pc' = [pc EXCEPT ![k] = "done"]
  /\ UNCHANGED serialVars
  /\ UNCHANGED <<p, order, n, local_n, local_x, local_y, local_z, a, aPtr, b,
                 bPtr, allred, okSeen, scatterQ, gatherQ, scatters, gathers,
                 diag, out, nullWrite>>

\* one step of rank k
Step(k) ==
  /\ k \in Ranks
  /\ \/ Read_n(k)
     \/ Allocate_vectors(k)
     \/ Check_for_error(k)
     \/ Read_vector(k)
     \/ Compute(k)
     \/ Print_vector(k)
     \/ Gather(k)
     \/ Finish(k)

Next ==
  \/ \E k \in Ranks : Read_n(k)
  \/ \E k \in Ranks : Allocate_vectors(k)
  \/ \E k \in Ranks : Check_for_error(k)
  \/ \E k \in Ranks : Read_vector(k)
  \/ \E k \in Ranks : Compute(k)
  \/ \E k \in Ranks : Print_vector(k)
  \/ \E k \in Ranks : Gather(k)
  \/ \E k \in Ranks : Finish(k)

Spec == Init /\ [][Next]_vars

\* every MPI process is an operating-system process that keeps being scheduled
FairSpec == Spec /\ \A k \in 0 .. (MaxP - 1) : WF_vars(Step(k))

\* ------------------------------------------------ modified_vector_add.c

\* the MPI program is not running
MpiIdle == MpiInit /\ p = 1 /\ order = 1

\* the i-th value of rand() after srand(seed); a small linear congruential
\* generator stands for the C library's
RECURSIVE RandAt(_, _)
RandAt(seed, i) ==
  IF i = 0 THEN seed ELSE (RandAt(seed, i - 1) * 1103 + 12345) % 32768

\* Generate_random_vector: srand(seed); a[i] = (rand() % 1000) / 10.0, in tenths
Generate_random_vector(seed, len) ==
  [i \in 1 .. len |-> RandAt(seed, i) % RandRange]

\* the loop prints every element
Print_part_of_vector_all(buf, len) == [i \in 1 .. len |-> buf[i]]

\* Print_part_of_vector: the values printed, i < 10 && i < n
Print_part_of_vector(buf, len) ==
  [i \in 1 .. (IF len < PrintLimit THEN len ELSE PrintLimit) |-> buf[i]]

SerialInit ==
  /\ MpiIdle
  /\ spc = "Allocate_vectors"
  /\ sn \in 1 .. SerialMaxN
  /\ sptr = [x |-> "unset", y |-> "unset", z |-> "unset"]
  /\ sx = <<>>
  /\ sy = <<>>
  /\ sz = <<>>
  /\ clock \in 0 .. MaxTime
  /\ serr = 0
  /\ sout = <<>>
  /\ sexit = Running

\* Allocate_vectors of the serial program
Serial_Allocate_vectors ==
  /\ spc = "Allocate_vectors"
  /\ \E px \in MallocResults, py \in MallocResults, pz \in MallocResults :
       /\ sptr' = [x |-> px, y |-> py, z |-> pz]
       /\ sx' = IF px = "live" THEN Fresh(sn) ELSE <<>>
       /\ sy' = IF py = "live" THEN Fresh(sn) ELSE <<>>
       /\ sz' = IF pz = "live" THEN Fresh(sn) ELSE <<>>
       /\ IF px = "NULL" \/ py = "NULL" \/ pz = "NULL"
            THEN /\ serr' = serr + 1
                 /\ sexit' = -1
                 /\ spc' = "exited"
            ELSE /\ spc' = "Generate_x"
                 /\ UNCHANGED <<serr, sexit>>
  /\ UNCHANGED <<sn, clock, sout>>
  /\ UNCHANGED mpiVars

\* main, lines 28-29: Generate_random_vector(x, n), then (y, n)
Serial_Generate ==
  /\ spc \in {"Generate_x", "Generate_y"}
  /\ \E now \in clock .. MaxTime :
       /\ clock' = now
       /\ IF spc = "Generate_x"
            THEN /\ sx' = Generate_random_vector(now, sn)
                 /\ spc' = "Generate_y"
                 /\ UNCHANGED sy
            ELSE /\ sy' = Generate_random_vector(now, sn)
                 /\ spc' = "Vector_sum"
                 /\ UNCHANGED sx
  /\ UNCHANGED <<sn, sptr, sz, serr, sout, sexit>>
  /\ UNCHANGED mpiVars

\* main, line 31
Serial_Vector_sum ==
  /\ spc = "Vector_sum"
  /\ sz' = Vector_sum(sx, sy, sz, sn)
  /\ spc' = "Print_part_of_vector"
  /\ UNCHANGED <<sn, sptr, sx, sy, clock, serr, sout, sexit>>
  /\ UNCHANGED mpiVars

\* main, line 33
Serial_Print_part_of_vector ==
  /\ spc = "Print_part_of_vector"
  /\ sout' = Append(sout, Print_part_of_vector(sz, sn))
  /\ spc' = "Free"
  /\ UNCHANGED <<sn, sptr, sx, sy, sz, clock, serr, sexit>>
  /\ UNCHANGED mpiVars

\* main, lines 35-39: free x, y, z and return 0
Serial_Finish ==
  /\ spc = "Free"
  /\ sptr' = [x |-> "freed", y |-> "freed", z |-> "freed"]
  /\ sexit' = 0
  /\ spc' = "done"
  /\ UNCHANGED <<sn, sx, sy, sz, clock, serr, sout>>
  /\ UNCHANGED mpiVars

SerialNext ==
  \/ Serial_Allocate_vectors
  \/ Serial_Generate
  \/ Serial_Vector_sum
  \/ Serial_Print_part_of_vector
  \/ Serial_Finish

SerialSpec == SerialInit /\ [][SerialNext]_vars

\* ------------------------------------------------ the summation functions

\* a call of a summation function on buffers of some length with len at
\* most that length, z not yet written
SumInit ==
  /\ MpiIdle
  /\ spc = "sum_call"
  /\ \E size \in 1 .. MaxN :
       /\ sx \in [1 .. size -> Vals]
       /\ sy \in [1 .. size -> Vals]
       /\ sz = Fresh(size)
       /\ sn \in 0 .. size
  /\ sptr = [x |-> "live", y |-> "live", z |-> "live"]
  /\ clock = 0
  /\ serr = 0
  /\ sout = <<>>
  /\ sexit = Running

Call_Vector_sum ==
  /\ spc = "sum_call"
  /\ sz' = Vector_sum(sx, sy, sz, sn)
  /\ spc' = "Vector_sum_returned"
  /\ UNCHANGED <<sn, sptr, sx, sy, clock, serr, sout, sexit>>
  /\ UNCHANGED mpiVars

Call_Parallel_vector_sum ==
  /\ spc = "sum_call"
  /\ sz' = Parallel_vector_sum(sx, sy, sz, sn)
  /\ spc' = "Parallel_vector_sum_returned"
  /\ UNCHANGED <<sn, sptr, sx, sy, clock, serr, sout, sexit>>
  /\ UNCHANGED mpiVars

SumNext ==
  \/ Call_Vector_sum
  \/ Call_Parallel_vector_sum

SumSpec == SumInit /\ [][SumNext]_vars

\* ---------------------------------------------------------------- claims

\* rank k has entered Read_vector, or is beyond it
AtOrPastDistribute(k) == pc[k] \in {"Read_x", "Read_y"} \/ scatters[k] > 0

\* rank 0 generated the vector in a buffer malloc gave it
Materialised(which) == aPtr[which] = "freed"

AllExited == \A k \in Ranks : pc[k] = "exited" /\ exitCode[k] = -1

OneDiagnosticFromOrigin ==
  /\ diag[0] = 1
  /\ \A k \in Ranks \ {0} : diag[k] = 0

AtMostOneDiagnosticFromOrigin ==
  /\ diag[0] <= 1
  /\ \A k \in Ranks \ {0} : diag[k] = 0

\* C1: when p divides the order and rank 0 held both input vectors, the
\* buffer rank 0 holds after MPI_Gather equals, position by position, the
\* serial Vector_sum of the full x and y.
C1_DistributedEqualsSerial ==
  (/\ gathers[0] = 1
   /\ order % p = 0
   /\ Materialised("x")
   /\ Materialised("y"))
  => b = Vector_sum(a["x"], a["y"], Fresh(order), order)

C1_Witness ==
  /\ p = 2
  /\ order = 4
  /\ gathers[0] = 1
  /\ a["x"] = <<0, 1, 0, 1>>
  /\ a["y"] = <<1, 1, 0, 0>>
  /\ b = <<1, 2, 0, 1>>

\* some rank's allocation in Allocate_vectors failed
AllocFailed == \E k \in Ranks : allred[1][k] = 0

\* C2: if the allocation in Allocate_vectors fails on any rank, every rank
\* terminates (exit(-1) in Check_for_error), rank 0 writes exactly one
\* diagnostic line and no other rank writes any.
C2_AllocFailureStopsAll ==
  /\ [](AllocFailed => AtMostOneDiagnosticFromOrigin)
  /\ (AllocFailed ~> (AllExited /\ OneDiagnosticFromOrigin))

C2_Witness ==
  /\ p = 2
  /\ allred[1][0] = 1
  /\ allred[1][1] = 0
  /\ AllExited
  /\ OneDiagnosticFromOrigin

\* C3: no rank executes an MPI_Scatter before every rank has contributed its
\* allocation flag to the first agreement, and if any flag is 0 no rank ever
\* executes a scatter.
C3_NoScatterBeforeAgreement ==
  /\ \A k \in Ranks :
       scatters[k] > 0 => \A j \in Ranks : allred[1][j] # NoFlag
  /\ AllocFailed => \A k \in Ranks : scatters[k] = 0

C3_Witness ==
  /\ p = 2
  /\ scatters[1] = 1
  /\ allred[1][0] = 1
  /\ allred[1][1] = 1

\* C4: an order that p does not divide is rejected: no rank executes the
\* MPI_Scatter of Read_vector (and none goes on to the distribute step).
C4_NonDivisibleRejected ==
  order % p # 0 => \A k \in Ranks : ~AtOrPastDistribute(k)

\* the index sets [k*count, (k+1)*count) of the blocks, one-based
BlockIndexes(k, count) == {k * count + i : i \in 1 .. count}

\* C5: whenever a rank is at or past the distribute step, n = p * local_n
\* and the blocks cover [0, n) with no overlap and no gap.
C5_BlocksCoverVector ==
  \A k \in Ranks :
    AtOrPastDistribute(k) =>
      /\ n[k] = p * local_n[k]
      /\ UNION {BlockIndexes(j, local_n[k]) : j \in Ranks} = 1 .. n[k]
      /\ \A i, j \in Ranks :
           i # j => BlockIndexes(i, local_n[k]) \cap BlockIndexes(j, local_n[k]) = {}

\* C6: after its Read_vector calls every rank k holds local_n values of x and
\* of y, the k-th contiguous slices of the x and y that rank 0 generated.
C6_BlocksAreSlices ==
  \A k \in Ranks :
    /\ (scatters[k] >= 1 /\ Materialised("x")) =>
         /\ Len(local_x[k]) = local_n[k]
         /\ \A i \in 1 .. local_n[k] :
              local_x[k][i] = a["x"][k * local_n[k] + i]
    /\ (scatters[k] = 2 /\ Materialised("y")) =>
         /\ Len(local_y[k]) = local_n[k]
         /\ \A i \in 1 .. local_n[k] :
              local_y[k][i] = a["y"][k * local_n[k] + i]

C6_Witness ==
  /\ p = 2
  /\ order = 4
  /\ scatters[0] = 2
  /\ scatters[1] = 2
  /\ a["x"] = <<0, 0, 0, 1>>
  /\ a["y"] = <<1, 1, 1, 0>>
  /\ local_x[1] = <<0, 1>>
  /\ local_y[1] = <<1, 0>>
  /\ local_x[0] = <<0, 0>>

\* C7: after the MPI_Gather of Print_vector, b holds rank k's local_z at
\* positions [k*local_n, (k+1)*local_n), for every k, in rank order.
C7_GatherInRankOrder ==
  gathers[0] = 1 =>
    \A k \in Ranks :
      \A i \in 1 .. local_n[0] : b[k * local_n[0] + i] = local_z[k][i]

C7_Witness ==
  /\ p = 2
  /\ order = 4
  /\ gathers[0] = 1
  /\ local_z[0] = <<0, 1>>
  /\ local_z[1] = <<2, 1>>
  /\ b = <<0, 1, 2, 1>>

\* rank k has left the r-th Check_for_error
LeftCheck(r, k) ==
  IF r = 1
    THEN pc[k] \notin {"Read_n", "Allocate_vectors", "Check_alloc"}
    ELSE pc[k] \in {"Gather", "Free", "done"} \/ (pc[k] = "exited" /\ okSeen[1][k] = 1)

\* C8: in every Check_for_error, ok is the minimum of the local_ok of all
\* ranks, every rank sees the same ok, no rank acts on it before all have
\* contributed, and a rank exits exactly when the ok it saw is 0.
C8_Agreement ==
  \A r \in 1 .. 2 :
    \A k \in Ranks :
      /\ LeftCheck(r, k) => okSeen[r][k] # NoFlag
      /\ okSeen[r][k] # NoFlag =>
           /\ \A j \in Ranks : allred[r][j] \in {0, 1}
           /\ okSeen[r][k] = IF \E j \in Ranks : allred[r][j] = 0 THEN 0 ELSE 1
           /\ \A j \in Ranks : okSeen[r][j] \in {NoFlag, okSeen[r][k]}
           /\ okSeen[r][k] = 0 => pc[k] = "exited"
           /\ (okSeen[r][k] = 1 /\ r = 2) => pc[k] # "exited"

C8_Witness ==
  /\ p = 2
  /\ okSeen[1][0] = 1
  /\ okSeen[1][1] = 1
  /\ allred[2][0] = 0
  /\ allred[2][1] = 1
  /\ okSeen[2][0] = 0
  /\ okSeen[2][1] = 0

\* C9: if the malloc of a in Read_vector fails, rank 0 never stores to or
\* scatters from the failed buffer: the failure is agreed on, reported once
\* by rank 0, and every rank exits.
C9_ReadVectorAllocChecked ==
  \A which \in {"x", "y"} :
    aPtr[which] = "NULL" =>
      /\ ~nullWrite
      /\ pc[0] # "crashed"
      /\ scatters[0] < (IF which = "x" THEN 1 ELSE 2)

\* the malloc of b in Print_vector failed
BFailed == bPtr = "NULL"

\* C10: if the malloc of b fails, every rank takes part in the agreement of
\* Print_vector, no rank executes MPI_Gather, rank 0 writes exactly one
\* diagnostic and every rank exits; ranks other than 0 always contribute 1,
\* so the outcome is rank 0's flag.
C10_GatherBufferFailure ==
  /\ [](BFailed => /\ \A k \in Ranks : gathers[k] = 0
                   /\ AtMostOneDiagnosticFromOrigin)
  /\ [](\A k \in Ranks :
          /\ k # 0 => allred[2][k] \in {NoFlag, 1}
          /\ okSeen[2][k] # NoFlag => okSeen[2][k] = allred[2][0])
  /\ (BFailed ~> (AllExited /\ OneDiagnosticFromOrigin
                  /\ \A k \in Ranks : allred[2][k] # NoFlag))

C10_Witness ==
  /\ p = 2
  /\ BFailed
  /\ allred[2][0] = 0
  /\ allred[2][1] = 1
  /\ AllExited
  /\ OneDiagnosticFromOrigin
  /\ gathers[0] = 0
  /\ gathers[1] = 0

\* every rank returned 0 from main
AllDone == \A k \in Ranks : pc[k] = "done" /\ exitCode[k] = 0

\* C12: only rank 0 prints the sum vector, at most once and exactly once in
\* a run that every rank completes, and only after every rank has finished
\* Parallel_vector_sum and made its MPI_Gather call; what is printed is the
\* gathered b; a rank other than 0 never holds a full-length vector.
C12_OnlyOriginPrints ==
  /\ \A k \in Ranks \ {0} :
       /\ out[k] = <<>>
       /\ local_n[k] < order
       /\ Len(local_x[k]) \in {0, local_n[k]}
       /\ Len(local_y[k]) \in {0, local_n[k]}
       /\ Len(local_z[k]) \in {0, local_n[k]}
  /\ Len(out[0]) <= 1
  /\ Len(out[0]) = 1 =>
       /\ \A k \in Ranks : gathers[k] = 1 /\ pc[k] \in {"Free", "done"}
       /\ Len(out[0][1]) = order
       /\ \A i \in 1 .. order : b[i] # Uninit => out[0][1][i] = b[i]
  /\ (\A k \in Ranks : pc[k] = "done") => Len(out[0]) = 1

C12_Witness ==
  /\ p = 2
  /\ order = 4
  /\ out[0] = << <<1, 2, 0, 1>> >>
  /\ b = <<1, 2, 0, 1>>
  /\ pc[1] = "Free"
  /\ out[1] = <<>>

\* the three block pointers of rank k
BlockPtrs(k) == {ptr[k].x, ptr[k].y, ptr[k].z}

\* C13: a rank mallocs each block buffer once, frees it once and only after
\* its MPI_Gather call, takes no step (no read, no write) after the frees,
\* and has freed all three when it returns from main; rank 0's full-length
\* a of a Read_vector call is gone (freed) as soon as that call has
\* scattered, so before the compute step.
C13_BufferLifecycle ==
  /\ [](\A k \in Ranks :
          /\ "freed" \in BlockPtrs(k) =>
               /\ BlockPtrs(k) = {"freed"}
               /\ gathers[k] = 1
               /\ pc[k] = "done"
          /\ pc[k] = "done" => BlockPtrs(k) = {"freed"}
          /\ pc[k] \in {"Read_x", "Read_y", "Parallel_vector_sum", "Print_vector",
                        "Check_print", "Gather", "Free"} => BlockPtrs(k) = {"live"})
  /\ [](/\ \A which \in {"x", "y"} : aPtr[which] # "live"
        /\ aPtr["x"] = "freed" => scatters[0] >= 1
        /\ aPtr["y"] = "freed" => scatters[0] = 2
        /\ pc[0] \in {"Parallel_vector_sum", "Print_vector", "Check_print",
                      "Gather", "Free", "done"} =>
             \A which \in {"x", "y"} : aPtr[which] \in {"freed", "NULL"})
  /\ [][\A k \in Ranks :
          /\ \A f \in {"x", "y", "z"} :
               ptr'[k][f] # ptr[k][f] =>
                 \/ ptr[k][f] = "unset" /\ ptr'[k][f] \in MallocResults
                 \/ ptr[k][f] = "live" /\ ptr'[k][f] = "freed"
          /\ "freed" \in BlockPtrs(k) =>
               /\ pc'[k] = pc[k]
               /\ local_x'[k] = local_x[k]
               /\ local_y'[k] = local_y[k]
               /\ local_z'[k] = local_z[k]]_vars

C13_Witness ==
  /\ p = 2
  /\ order = 4
  /\ pc[1] = "done"
  /\ BlockPtrs(1) = {"freed"}
  /\ BlockPtrs(0) = {"live"}
  /\ pc[0] = "Gather"
  /\ aPtr["x"] = "freed"
  /\ aPtr["y"] = "freed"

\* some malloc of the run returned NULL
AnyMallocFailed ==
  \/ \E k \in Ranks : "NULL" \in BlockPtrs(k)
  \/ \E which \in {"x", "y"} : aPtr[which] = "NULL"
  \/ bPtr = "NULL"

\* C16: when no malloc fails and p divides the order, every rank eventually
\* returns 0 from main; every rank makes its collective calls in the order
\* allreduce, scatter, scatter, allreduce, gather.
C16_AllRanksFinish ==
  /\ <>(AnyMallocFailed \/ order % p # 0 \/ AllDone)
  /\ [](\A k \in Ranks :
          /\ scatters[k] > 0 => okSeen[1][k] = 1
          /\ allred[2][k] # NoFlag => scatters[k] = 2
          /\ gathers[k] = 1 => okSeen[2][k] = 1
          /\ pc[k] = "done" => gathers[k] = 1 /\ exitCode[k] = 0)

C16_Witness ==
  /\ p = 2
  /\ order = 4
  /\ ~AnyMallocFailed
  /\ AllDone
  /\ scatters[1] = 2
  /\ gathers[1] = 1

\* rank k takes the compute step
ComputeStep(k) == pc[k] = "Parallel_vector_sum" /\ pc'[k] = "Print_vector"

\* C17: the compute step of rank k changes only rank k's local_z (and its
\* position): its local_x and local_y, every other rank's buffers, rank 0's
\* full-length vectors and everything the collectives use stay as they are.
C17_ComputeFrame ==
  [][\A k \in Ranks :
       ComputeStep(k) =>
         /\ local_z'[k] = Parallel_vector_sum(local_x[k], local_y[k],
                                              local_z[k], local_n[k])
         /\ local_x' = local_x
         /\ local_y' = local_y
         /\ \A j \in Ranks \ {k} : local_z'[j] = local_z[j] /\ pc'[j] = pc[j]
         /\ a' = a
         /\ b' = b
         /\ ptr' = ptr
         /\ allred' = allred
         /\ okSeen' = okSeen
         /\ scatterQ' = scatterQ
         /\ gatherQ' = gatherQ
         /\ scatters' = scatters
         /\ gathers' = gathers]_vars

C17_Witness ==
  /\ p = 2
  /\ order = 4
  /\ pc[1] = "Print_vector"
  /\ pc[0] = "Parallel_vector_sum"
  /\ local_x[1] = <<1, 0>>
  /\ local_y[1] = <<1, 1>>
  /\ local_z[1] = <<2, 1>>
  /\ local_z[0] = <<Uninit, Uninit>>

\* a summation function has returned
SumReturned == spc \in {"Vector_sum_returned", "Parallel_vector_sum_returned"}

\* C11: Vector_sum and Parallel_vector_sum called with length n set
\* z[i] = x[i] + y[i] for every i in [0, n), write no position of z beyond
\* n (it stays unwritten, z keeps its size), and leave x and y unchanged.
C11_SumContract ==
  /\ [](SumReturned =>
          /\ Len(sz) = Len(sx)
          /\ \A i \in 1 .. Len(sz) :
               sz[i] = IF i <= sn THEN sx[i] + sy[i] ELSE Uninit)
  /\ [][sx' = sx /\ sy' = sy]_vars

C11_Witness ==
  /\ spc = "Parallel_vector_sum_returned"
  /\ sn = 2
  /\ sx = <<1, 0, 1>>
  /\ sy = <<1, 1, 1>>
  /\ sz = <<2, 1, Uninit>>

\* the pointers x, y, z of the serial program
SerialPtrs == {sptr.x, sptr.y, sptr.z}

\* C14: serial program: if one of the three mallocs fails it writes one
\* diagnostic and exits with -1 with no buffer written and nothing printed;
\* otherwise it computes the sum, prints exactly min(10, n) values of z,
\* frees the three vectors and exits with 0.
C14_SerialProgram ==
  /\ "NULL" \in SerialPtrs =>
       /\ spc = "exited"
       /\ serr = 1
       /\ sexit = -1
       /\ sout = <<>>
       /\ \A buf \in {sx, sy, sz} : \A i \in 1 .. Len(buf) : buf[i] = Uninit
  /\ spc = "exited" => "NULL" \in SerialPtrs
  /\ spc # "exited" => serr = 0
  /\ spc = "done" =>
       /\ sexit = 0
       /\ SerialPtrs = {"freed"}
       /\ Len(sz) = sn
       /\ \A i \in 1 .. sn : sz[i] = sx[i] + sy[i]
       /\ Len(sout) = 1
       /\ Len(sout[1]) = (IF sn < 10 THEN sn ELSE 10)
       /\ \A i \in 1 .. Len(sout[1]) : sout[1][i] = sz[i]
  /\ spc # "done" => sexit # 0 /\ "freed" \notin SerialPtrs

C14_Witness ==
  /\ spc = "done"
  /\ sn = 11
  /\ Len(sout[1]) = 10
  /\ sexit = 0
  /\ sx # sy

\* C15: Vector_sum(x, y) and Vector_sum(y, x) give the same z, element by
\* element.
C15_SumCommutes ==
  spc = "Vector_sum_returned" =>
    /\ sz = Vector_sum(sy, sx, Fresh(Len(sz)), sn)
    /\ \A i \in 1 .. sn : sz[i] = sy[i] + sx[i]

C15_Witness ==
  /\ spc = "Vector_sum_returned"
  /\ sn = 2
  /\ sx = <<0, 1>>
  /\ sy = <<1, 1>>
  /\ sz = <<1, 2>>

====
